---- MODULE Spec2Model ----
(***************************************************************************)
(* Model of stackbench/introspection_templates/rust_introspect.rs: the     *)
(* syn visitor APICollector that collects the public items of a crate and  *)
(* main, which runs it over the source files and assembles the report.     *)
(*                                                                         *)
(* Strings are TLA+ strings; a token stream is a sequence of strings.      *)
(* A parsed source file (syn::File) is the pre-order list of its syntax    *)
(* nodes, each a record                                                    *)
(*   [kind, vis, ident, attrs, asyncness, inputs, output, has_content,     *)
(*    depth]                                                               *)
(* kind: the syn variant: Item::{Fn,Struct,Enum,Trait,Mod,Impl,Const},     *)
(* TraitItem::{Method,Other} and ImplItem::Method.  depth: the nesting     *)
(* depth; the children of a node are the nodes one level deeper that       *)
(* follow it before the next node of its own depth or less: the items      *)
(* among a function body's statements, a module's content, the members of  *)
(* a trait or impl, the items in a member's body.                          *)
(***************************************************************************)
EXTENDS Integers, Sequences, FiniteSets, TLC

\* ---------------------------------------------------------------- bounds
\* Largest number of syntax nodes in one generated source file.
MaxNodes == 3
\* Largest number of source files named on the command line.
MaxFiles == 2

\* ------------------------------------------------------- string helpers
RECURSIVE join(_, _)
\* Vec<String>::join(sep) / [String]::join(sep)
join(parts, sep) ==
    IF Len(parts) = 0 THEN ""
    ELSE IF Len(parts) = 1 THEN parts[1]
    ELSE parts[1] \o sep \o join(Tail(parts), sep)

\* proc_macro2::TokenStream::to_string(): the tokens separated by one space
to_string(tokens) == join(tokens, " ")

\* str::to_lowercase over the words that occur in the attribute texts
to_lowercase(w) ==
    CASE w = "Deprecated:" -> "deprecated:"
      [] w = "DEPRECATED" -> "deprecated"
      [] w = "Computes" -> "computes"
      [] w = "X" -> "x"
      [] OTHER -> w

\* str::contains("deprecated") on one lower-cased word
contains_deprecated(w) == w \in {"deprecated", "deprecated:"}

\* ------------------------------------------------------------ syn nodes
Node(kind, vis, ident, attrs, asyncness, inputs, output, has_content) ==
    [kind |-> kind, vis |-> vis, ident |-> ident, attrs |-> attrs,
     asyncness |-> asyncness, inputs |-> inputs, output |-> output,
     has_content |-> has_content, depth |-> 0]

\* syn::Attribute: its path and, when it parses as Meta::NameValue with a
\* string literal, the words of that literal (lit_str = FALSE otherwise).
Attr(path, lit_str, words) == [path |-> path, lit_str |-> lit_str, words |-> words]

DocAttr == Attr("doc", TRUE, <<"Computes", "the", "area">>)
DocDeprecatedAttr == Attr("doc", TRUE, <<"Deprecated:", "use", "X", "instead">>)
DeprecatedAttr == Attr("deprecated", FALSE, <<>>)
InlineAttr == Attr("inline", FALSE, <<>>)
NoteAttr == Attr("note", TRUE, <<"DEPRECATED">>)

\* syn::FnArg: Receiver, or Typed(PatType { pat, ty })
Receiver == [receiver |-> TRUE, pat |-> <<>>, ty |-> <<>>]
Typed(pat, ty) == [receiver |-> FALSE, pat |-> pat, ty |-> ty]

\* The declarations the generated source files are built from.
ItemTemplates ==
    { Node("Fn", "Public", "area", <<DocAttr>>, FALSE,
           <<Typed(<<"r">>, <<"Radius">>)>>, <<"Area">>, FALSE),
      Node("Fn", "Restricted", "helper", <<InlineAttr>>, TRUE, <<>>, <<>>, FALSE),
      Node("Struct", "Public", "Point", <<DocDeprecatedAttr>>, FALSE, <<>>, <<>>, FALSE),
      Node("Enum", "Public", "Color", <<DeprecatedAttr>>, FALSE, <<>>, <<>>, FALSE),
      Node("Trait", "Public", "Drawable", <<>>, FALSE, <<>>, <<>>, FALSE),
      Node("Trait", "Inherited", "Hidden", <<>>, FALSE, <<>>, <<>>, FALSE),
      Node("Mod", "Public", "shapes", <<>>, FALSE, <<>>, <<>>, TRUE),
      Node("Mod", "Inherited", "detail", <<>>, FALSE, <<>>, <<>>, TRUE),
      Node("Mod", "Public", "ext", <<>>, FALSE, <<>>, <<>>, FALSE),
      Node("Impl", "Inherited", "Point", <<>>, FALSE, <<>>, <<>>, FALSE),
      Node("Const", "Public", "LIMIT", <<DocAttr>>, FALSE, <<>>, <<>>, FALSE) }

TraitItemTemplates ==
    { Node("TraitMethod", "Inherited", "draw", <<>>, FALSE, <<Receiver>>, <<>>, FALSE),
      Node("TraitMethod", "Inherited", "scale", <<NoteAttr>>, TRUE,
           <<Receiver, Typed(<<"k">>, <<"f64">>)>>, <<"Vec", "<", "u8", ">">>, FALSE),
      Node("TraitOther", "Inherited", "Output", <<>>, FALSE, <<>>, <<>>, FALSE) }

ImplItemTemplates ==
    { Node("ImplMethod", "Public", "new", <<>>, FALSE, <<>>, <<"Self">>, FALSE) }

Templates(ctx) ==
    CASE ctx = "item" -> ItemTemplates
      [] ctx = "trait" -> TraitItemTemplates
      [] ctx = "impl" -> ImplItemTemplates
      [] OTHER -> {}

\* What the children of a node are: items, trait members, impl members, or
\* nothing (a struct, an enum, `mod name;`, an associated type, a constant).
ChildCtx(n) ==
    CASE n.kind \in {"Fn", "TraitMethod", "ImplMethod"} -> "item"
      [] n.kind = "Mod" -> IF n.has_content THEN "item" ELSE "none"
      [] n.kind = "Trait" -> "trait"
      [] n.kind = "Impl" -> "impl"
      [] OTHER -> "none"

RECURSIVE LastAtDepth(_, _, _)
\* The last of the first i nodes of file f that has depth d (0: none).
LastAtDepth(f, i, d) ==
    IF i = 0 THEN 0
    ELSE IF f[i].depth = d THEN i
    ELSE LastAtDepth(f, i - 1, d)

\* The node that contains node i of file f (0: the file itself).
Parent(f, i) == IF f[i].depth = 0 THEN 0 ELSE LastAtDepth(f, i - 1, f[i].depth - 1)

\* The nodes that node p of file f contains, in lexical order.
Children(f, p) ==
    LET idx == [i \in 1..Len(f) |-> i]
    IN SelectSeq(idx, LAMBDA i : Parent(f, i) = p)

\* The nodes that may follow the pre-order list f in a well-formed file.
Continuations(f) ==
    LET deepest == IF Len(f) = 0 THEN 0 ELSE f[Len(f)].depth + 1
        ctx(d) == IF d = 0 THEN "item" ELSE ChildCtx(f[LastAtDepth(f, Len(f), d - 1)])
    IN UNION { { [t EXCEPT !.depth = d] : t \in Templates(ctx(d)) } : d \in 0..deepest }

RECURSIVE FilesOfSize(_)
\* Every syn::File of exactly n nodes.
FilesOfSize(n) ==
    IF n = 0 THEN {<<>>}
    ELSE UNION { { Append(f, x) : x \in Continuations(f) } : f \in FilesOfSize(n - 1) }

\* ------------------------------------------------------- the file system
\* What a path names: nothing (Path::exists is false), a file that cannot be
\* read (fs::read_to_string fails), a file that syn::parse_file rejects, or a
\* file that parses to the syntax tree `items`.
Content(status, items) == [status |-> status, items |-> items]
Missing == Content("missing", <<>>)
Unreadable == Content("unreadable", <<>>)
Invalid == Content("invalid", <<>>)

FileNames == {"src/lib.rs", "src/main.rs", "a.rs"}

\* `pub mod shapes { pub fn area(r: Radius) -> Area {} }`
ShapesFile ==
    LET m == Node("Mod", "Public", "shapes", <<>>, FALSE, <<>>, <<>>, TRUE)
        f == Node("Fn", "Public", "area", <<DocAttr>>, FALSE,
                  <<Typed(<<"r">>, <<"Radius">>)>>, <<"Area">>, FALSE)
    IN <<m, [f EXCEPT !.depth = 1]>>

\* `pub struct Point; pub trait Drawable { fn draw(&self); }`
PointFile ==
    LET p == Node("Struct", "Public", "Point", <<DocDeprecatedAttr>>, FALSE, <<>>, <<>>, FALSE)
        t == Node("Trait", "Public", "Drawable", <<>>, FALSE, <<>>, <<>>, FALSE)
        m == Node("TraitMethod", "Inherited", "draw", <<>>, FALSE, <<Receiver>>, <<>>, FALSE)
    IN <<p, t, [m EXCEPT !.depth = 1]>>

\* The contents of the files of a run over several files.
SmallContents == {Missing, Unreadable, Invalid, Content("ok", ShapesFile), Content("ok", PointFile)}

RECURSIVE SeqsUpTo(_, _)
\* The sequences over S of length at most n.
SeqsUpTo(S, n) ==
    IF n = 0 THEN {<<>>}
    ELSE LET shorter == SeqsUpTo(S, n - 1)
         IN shorter \cup { Append(q, e) : q \in shorter, e \in S }

\* ----------------------------------------------------------------- state
VARIABLES
    crate_name,        \* args[1]
    version,           \* args[2]
    source_files,      \* args[3..]
    fs,                \* the file system: path -> Content
    pc,                \* where main is: "start", "loop", "visit", "count", "done"
    files_to_process,  \* main's files_to_process
    file_idx,          \* position of main's for loop in files_to_process
    all_apis,          \* main's all_apis
    stderr,            \* the lines written by eprintln!
    apis,              \* APICollector.apis of the file being visited
    module_path,       \* APICollector.module_path
    stack,             \* the visitor's call stack: one frame per node being visited
    origins,           \* history: origins[k] is the node that apis[k] was emitted for
    results,           \* history: what each file of the loop contributed
    by_type,           \* main's by_type
    deprecated_count,  \* main's deprecated_count
    count_idx,         \* position of main's counting loop in all_apis
    output             \* <<>>, or <<the IntrospectionOutput printed>>

vars == <<crate_name, version, source_files, fs, pc, files_to_process, file_idx,
          all_apis, stderr, apis, module_path, stack, origins, results,
          by_type, deprecated_count, count_idx, output>>

inputs == <<crate_name, version, source_files, fs>>
collector == <<apis, module_path, stack, origins>>
counting == <<by_type, deprecated_count, count_idx, output>>

\* ------------------------------------------------------ metadata helpers
\* Mutant of is_public: any `pub` form counts, pub(crate) included.
is_public_any_pub(vis) == vis \in {"Public", "Restricted"}

is_public(vis) == vis = "Public"

is_deprecated(attrs) ==
    \E i \in 1..Len(attrs) :
        \/ attrs[i].path = "deprecated"
        \/ /\ attrs[i].lit_str
           /\ \E w \in 1..Len(attrs[i].words) :
                  contains_deprecated(to_lowercase(attrs[i].words[w]))

has_docstring(attrs) == \E i \in 1..Len(attrs) : attrs[i].path = "doc"

\* quote!(#pat_type.pat) and quote!(#pat_type.ty): `#pat_type` interpolates
\* the whole PatType (pat, colon, ty); `.pat` and `.ty` follow as tokens.
quote_pat_type(arg, field) == arg.pat \o <<":">> \o arg.ty \o <<".", field>>

fn_arg(arg) ==
    IF arg.receiver THEN "self"
    ELSE to_string(quote_pat_type(arg, "pat")) \o ": " \o to_string(quote_pat_type(arg, "ty"))

get_fn_signature(sig) ==
    LET ins == [i \in 1..Len(sig.inputs) |-> fn_arg(sig.inputs[i])]
        out == IF sig.output = <<>> THEN "" ELSE " -> " \o to_string(sig.output)
    IN "(" \o join(ins, ", ") \o ")" \o out

APIMetadata(api, module, api_type, is_async, docstring, deprecated, signature) ==
    [api |-> api, module |-> module, api_type |-> api_type, is_async |-> is_async,
     has_docstring |-> docstring, in_all |-> TRUE, is_deprecated |-> deprecated,
     signature |-> signature]

\* ------------------------------------------------------------ APICollector
\* Mutant of current_module: the innermost segment alone.
current_module_innermost(path) == path[Len(path)]

current_module(path) == join(path, "::")

add_api(list, metadata) == Append(list, metadata)

\* The record visit_item_fn pushes.
fn_metadata(node, path) ==
    APIMetadata(current_module(path) \o "::" \o node.ident, current_module(path),
                "function", node.asyncness, has_docstring(node.attrs),
                is_deprecated(node.attrs), get_fn_signature(node))

\* The record visit_item_struct, visit_item_enum and visit_item_trait push.
type_metadata(node, path, word) ==
    APIMetadata(current_module(path) \o "::" \o node.ident, current_module(path),
                "class", FALSE, has_docstring(node.attrs),
                is_deprecated(node.attrs), word \o " " \o node.ident)

\* Mutant of method_metadata: the trait's qualified name as the module.
method_metadata_trait_module(node, method, path) ==
    APIMetadata((join(path, "::") \o "::" \o node.ident) \o "::" \o method.ident,
                join(path, "::") \o "::" \o node.ident, "method", method.asyncness,
                has_docstring(method.attrs), is_deprecated(method.attrs),
                get_fn_signature(method))

\* The record visit_item_trait pushes for the member `method` of trait `node`.
method_metadata(node, method, path) ==
    APIMetadata((current_module(path) \o "::" \o node.ident) \o "::" \o method.ident,
                current_module(path), "method", method.asyncness,
                has_docstring(method.attrs), is_deprecated(method.attrs),
                get_fn_signature(method))

\* ------------------------------------------------------------- traversal
\* The syntax tree being visited.
Tree == fs[files_to_process[file_idx]].items

Top == stack[Len(stack)]

\* The nodes the loop of a frame runs over: the file's items, a module's
\* content (nothing for `mod name;`), the nodes syn's default traversal of
\* any other node reaches.
Items(frame) ==
    IF frame.owner # 0 /\ Tree[frame.owner].kind = "Mod" /\ ~Tree[frame.owner].has_content
    THEN <<>>
    ELSE Children(Tree, frame.owner)

Visiting == pc = "visit" /\ Len(stack) > 0
HasNext == Top.pos <= Len(Items(Top))
Cur == Items(Top)[Top.pos]
CurNode == Tree[Cur]

\* A frame for the visit of node i; entry_len and entry_path are history:
\* the number of records and the module path when the visit began.
Frame(i) == [owner |-> i, pos |-> 1, entry_len |-> Len(apis), entry_path |-> module_path]

\* The caller moves on to its next item.
Advance(stk) == [stk EXCEPT ![Len(stk)].pos = @ + 1]

\* The visit of node i goes on to the nodes under it.
Descend(stk, i) == Append(Advance(stk), Frame(i))

Return(stk) == SubSeq(stk, 1, Len(stk) - 1)

visit_item_fn ==
    /\ Visiting /\ HasNext /\ CurNode.kind = "Fn"
    /\ IF is_public(CurNode.vis)
       THEN /\ apis' = add_api(apis, fn_metadata(CurNode, module_path))
            /\ origins' = Append(origins, Cur)
       ELSE UNCHANGED <<apis, origins>>
    /\ stack' = Descend(stack, Cur)
    /\ UNCHANGED <<inputs, pc, files_to_process, file_idx, all_apis, stderr,
                   module_path, results, counting>>

visit_item_struct ==
    /\ Visiting /\ HasNext /\ CurNode.kind = "Struct"
    /\ IF is_public(CurNode.vis)
       THEN /\ apis' = add_api(apis, type_metadata(CurNode, module_path, "struct"))
            /\ origins' = Append(origins, Cur)
       ELSE UNCHANGED <<apis, origins>>
    /\ stack' = Advance(stack)
    /\ UNCHANGED <<inputs, pc, files_to_process, file_idx, all_apis, stderr,
                   module_path, results, counting>>

visit_item_enum ==
    /\ Visiting /\ HasNext /\ CurNode.kind = "Enum"
    /\ IF is_public(CurNode.vis)
       THEN /\ apis' = add_api(apis, type_metadata(CurNode, module_path, "enum"))
            /\ origins' = Append(origins, Cur)
       ELSE UNCHANGED <<apis, origins>>
    /\ stack' = Advance(stack)
    /\ UNCHANGED <<inputs, pc, files_to_process, file_idx, all_apis, stderr,
                   module_path, results, counting>>

\* The members of trait i that are TraitItem::Method, in lexical order.
trait_methods(i) == SelectSeq(Children(Tree, i), LAMBDA m : Tree[m].kind = "TraitMethod")

\* The records the `for item in &node.items` loop of visit_item_trait pushes.
trait_method_apis(i, path) ==
    [k \in 1..Len(trait_methods(i)) |->
        method_metadata(Tree[i], Tree[trait_methods(i)[k]], path)]

visit_item_trait ==
    /\ Visiting /\ HasNext /\ CurNode.kind = "Trait"
    /\ IF is_public(CurNode.vis)
       THEN /\ apis' = add_api(apis, type_metadata(CurNode, module_path, "trait"))
                           \o trait_method_apis(Cur, module_path)
            /\ origins' = Append(origins, Cur) \o trait_methods(Cur)
       ELSE UNCHANGED <<apis, origins>>
    /\ stack' = Descend(stack, Cur)
    /\ UNCHANGED <<inputs, pc, files_to_process, file_idx, all_apis, stderr,
                   module_path, results, counting>>

\* Mutant of visit_item_mod: the module is entered whatever its visibility.
visit_item_mod_any_visibility ==
    /\ Visiting /\ HasNext /\ CurNode.kind = "Mod"
    /\ module_path' = Append(module_path, CurNode.ident)
    /\ stack' = Descend(stack, Cur)
    /\ UNCHANGED <<inputs, pc, files_to_process, file_idx, all_apis, stderr,
                   apis, origins, results, counting>>

\* visit_item_mod up to its loop over the module's items.
visit_item_mod ==
    /\ Visiting /\ HasNext /\ CurNode.kind = "Mod"
    /\ IF is_public(CurNode.vis)
       THEN /\ module_path' = Append(module_path, CurNode.ident)
            /\ stack' = Descend(stack, Cur)
       ELSE /\ stack' = Advance(stack)
            /\ UNCHANGED module_path
    /\ UNCHANGED <<inputs, pc, files_to_process, file_idx, all_apis, stderr,
                   apis, origins, results, counting>>

\* Mutant of exit_item_mod: the pop is missing.
exit_item_mod_no_pop ==
    /\ Visiting /\ ~HasNext /\ Top.owner # 0 /\ Tree[Top.owner].kind = "Mod"
    /\ stack' = Return(stack)
    /\ UNCHANGED <<inputs, pc, files_to_process, file_idx, all_apis, stderr,
                   apis, origins, module_path, results, counting>>

\* visit_item_mod after its loop: `self.module_path.pop()`.
exit_item_mod ==
    /\ Visiting /\ ~HasNext /\ Top.owner # 0 /\ Tree[Top.owner].kind = "Mod"
    /\ module_path' = SubSeq(module_path, 1, Len(module_path) - 1)
    /\ stack' = Return(stack)
    /\ UNCHANGED <<inputs, pc, files_to_process, file_idx, all_apis, stderr,
                   apis, origins, results, counting>>

\* Mutant of visit_default: the public methods of an impl block are
\* recorded the way trait methods are.
visit_default_impl_methods ==
    /\ Visiting /\ HasNext
    /\ CurNode.kind \in {"Impl", "Const", "TraitMethod", "TraitOther", "ImplMethod"}
    /\ IF CurNode.kind = "ImplMethod" /\ CurNode.vis = "Public"
       THEN /\ apis' = Append(apis,
                  [fn_metadata(CurNode, module_path) EXCEPT !.api_type = "method"])
            /\ origins' = Append(origins, Cur)
       ELSE UNCHANGED <<apis, origins>>
    /\ stack' = Descend(stack, Cur)
    /\ UNCHANGED <<inputs, pc, files_to_process, file_idx, all_apis, stderr,
                   module_path, results, counting>>

\* The visit methods APICollector does not override (visit_item_impl,
\* visit_item_const, visit_trait_item_method, visit_trait_item_type,
\* visit_impl_item_method):
\* syn's default traversal, which records nothing and goes on to the nodes
\* under the node.
visit_default ==
    /\ Visiting /\ HasNext
    /\ CurNode.kind \in {"Impl", "Const", "TraitMethod", "TraitOther", "ImplMethod"}
    /\ stack' = Descend(stack, Cur)
    /\ UNCHANGED <<inputs, pc, files_to_process, file_idx, all_apis, stderr,
                   apis, origins, module_path, results, counting>>

\* syn::visit::visit_item_fn, visit_item_trait or a default visit returns.
return_visit ==
    /\ Visiting /\ ~HasNext /\ Top.owner # 0 /\ Tree[Top.owner].kind # "Mod"
    /\ stack' = Return(stack)
    /\ UNCHANGED <<inputs, pc, files_to_process, file_idx, all_apis, stderr,
                   apis, origins, module_path, results, counting>>

\* ------------------------------------------------------------------ main
CurFile == files_to_process[file_idx]
InLoop == pc = "loop" /\ file_idx <= Len(files_to_process)

Result(file, outcome, list) == [file |-> file, outcome |-> outcome, apis |-> list]

\* Mutant of extend: a record whose api is already in the list is dropped.
extend_dedup(list, more) ==
    list \o SelectSeq(more, LAMBDA m : \A k \in 1..Len(list) : list[k].api # m.api)

\* Vec::extend
extend(list, more) == list \o more

\* Mutant of entry_add: `or_insert(1)`.
entry_add_or_insert_one(map, key) ==
    IF key \in DOMAIN map THEN [map EXCEPT ![key] = @ + 1] ELSE (key :> 2) @@ map

\* `*by_type.entry(key).or_insert(0) += 1`
entry_add(map, key) ==
    IF key \in DOMAIN map THEN [map EXCEPT ![key] = @ + 1] ELSE (key :> 1) @@ map

\* main, lines 276-285: the files to process.
main_select_files ==
    /\ pc = "start"
    /\ files_to_process' = IF source_files = <<>>
                           THEN <<"src/lib.rs", "src/main.rs">>
                           ELSE source_files
    /\ pc' = "loop"
    /\ UNCHANGED <<inputs, file_idx, all_apis, stderr, collector, results, counting>>

\* main, lines 289-291: `if !file_path.exists() { continue; }`
main_skip_missing ==
    /\ InLoop /\ fs[CurFile].status = "missing"
    /\ file_idx' = file_idx + 1
    /\ results' = Append(results, Result(CurFile, "missing", <<>>))
    /\ UNCHANGED <<inputs, pc, files_to_process, all_apis, stderr, collector, counting>>

\* Mutant of introspect_file_err: the error ends the loop over the files.
introspect_file_err_abort ==
    /\ pc = "loop" /\ file_idx <= Len(files_to_process)
    /\ fs[files_to_process[file_idx]].status \in {"unreadable", "invalid"}
    /\ stderr' = Append(stderr, "ERROR: Failed to introspect "
                                    \o files_to_process[file_idx] \o ": "
                                    \o fs[files_to_process[file_idx]].status)
    /\ file_idx' = Len(files_to_process) + 1
    /\ results' = Append(results, [file |-> files_to_process[file_idx],
                                   outcome |-> "err", apis |-> <<>>])
    /\ UNCHANGED <<inputs, pc, files_to_process, all_apis, collector, counting>>

\* introspect_file returns Err (read_to_string or parse_file failed) and main
\* reports it.
introspect_file_err ==
    /\ InLoop /\ fs[CurFile].status \in {"unreadable", "invalid"}
    /\ stderr' = Append(stderr, "ERROR: Failed to introspect " \o CurFile \o ": "
                                    \o fs[CurFile].status)
    /\ file_idx' = file_idx + 1
    /\ results' = Append(results, Result(CurFile, "err", <<>>))
    /\ UNCHANGED <<inputs, pc, files_to_process, all_apis, collector, counting>>

\* introspect_file up to collector.visit_file: APICollector::new.
introspect_file_visit ==
    /\ InLoop /\ fs[CurFile].status = "ok"
    /\ apis' = <<>>
    /\ origins' = <<>>
    /\ module_path' = <<crate_name>>
    /\ stack' = <<[owner |-> 0, pos |-> 1, entry_len |-> 0, entry_path |-> <<crate_name>>]>>
    /\ pc' = "visit"
    /\ UNCHANGED <<inputs, files_to_process, file_idx, all_apis, stderr, results, counting>>

\* visit_file returns, introspect_file returns Ok(collector.apis) and main
\* extends all_apis with it.
introspect_file_ok ==
    /\ Visiting /\ ~HasNext /\ Top.owner = 0
    /\ all_apis' = extend(all_apis, apis)
    /\ results' = Append(results, Result(CurFile, "ok", apis))
    /\ file_idx' = file_idx + 1
    /\ pc' = "loop"
    /\ apis' = <<>> /\ origins' = <<>> /\ module_path' = <<>> /\ stack' = <<>>
    /\ UNCHANGED <<inputs, files_to_process, stderr, counting>>

\* main, lines 299-301: the loop over the files is over.
main_count_start ==
    /\ pc = "loop" /\ file_idx > Len(files_to_process)
    /\ by_type' = <<>>
    /\ deprecated_count' = 0
    /\ count_idx' = 1
    /\ pc' = "count"
    /\ UNCHANGED <<inputs, files_to_process, file_idx, all_apis, stderr, collector,
                   results, output>>

\* main, lines 303-308: one turn of `for api in &all_apis`.
main_count_api ==
    /\ pc = "count" /\ count_idx <= Len(all_apis)
    /\ by_type' = entry_add(by_type, all_apis[count_idx].api_type)
    /\ deprecated_count' = IF all_apis[count_idx].is_deprecated
                           THEN deprecated_count + 1 ELSE deprecated_count
    /\ count_idx' = count_idx + 1
    /\ UNCHANGED <<inputs, pc, files_to_process, file_idx, all_apis, stderr, collector,
                   results, output>>

\* main, lines 310-323: the report.
main_output ==
    /\ pc = "count" /\ count_idx > Len(all_apis)
    /\ output' = << [library |-> crate_name, version |-> version, language |-> "rust",
                     total_apis |-> Len(all_apis), apis |-> all_apis,
                     by_type |-> by_type, deprecated_count |-> deprecated_count] >>
    /\ pc' = "done"
    /\ UNCHANGED <<inputs, files_to_process, file_idx, all_apis, stderr, collector,
                   results, by_type, deprecated_count, count_idx>>

\* ------------------------------------------------------------------ runs
\* A run over one source file of at most MaxNodes nodes.
OneFile ==
    /\ source_files = <<"a.rs">>
    /\ \E n \in 0..(MaxNodes - 1) : \E f \in FilesOfSize(n) :
         \E file \in {f} \cup { Append(f, c) : c \in Continuations(f) } :
            fs = [name \in FileNames |->
                    IF name = "a.rs" THEN Content("ok", file) ELSE Missing]

\* A run over at most MaxFiles files, some of them missing, unreadable or
\* not valid Rust; with no file named, main looks for src/lib.rs and
\* src/main.rs.
SeveralFiles ==
    /\ source_files \in SeqsUpTo(FileNames, MaxFiles)
    /\ fs \in [FileNames -> SmallContents]

Init ==
    /\ crate_name = "lib"
    /\ version = "1.0.0"
    /\ OneFile \/ SeveralFiles
    /\ pc = "start"
    /\ files_to_process = <<>>
    /\ file_idx = 1
    /\ all_apis = <<>>
    /\ stderr = <<>>
    /\ apis = <<>> /\ origins = <<>> /\ module_path = <<>> /\ stack = <<>>
    /\ results = <<>>
    /\ by_type = <<>> /\ deprecated_count = 0 /\ count_idx = 1
    /\ output = <<>>

Next ==
    \/ main_select_files
    \/ main_skip_missing
    \/ introspect_file_err
    \/ introspect_file_visit
    \/ visit_item_fn
    \/ visit_item_struct
    \/ visit_item_enum
    \/ visit_item_trait
    \/ visit_item_mod
    \/ exit_item_mod
    \/ visit_default
    \/ return_visit
    \/ introspect_file_ok
    \/ main_count_start
    \/ main_count_api
    \/ main_output

Spec == Init /\ [][Next]_vars

\* ============================================================== properties
\* ----------------------------------------------- what the properties use
RECURSIVE Ancestors(_, _)
\* The nodes of file f that contain node i.
Ancestors(f, i) ==
    IF Parent(f, i) = 0 THEN {}
    ELSE {Parent(f, i)} \cup Ancestors(f, Parent(f, i))

RECURSIVE EnclosingModules(_, _)
\* The names of the modules of file f that contain node i, outermost first.
EnclosingModules(f, i) ==
    LET p == Parent(f, i)
    IN IF p = 0 THEN <<>>
       ELSE EnclosingModules(f, p) \o (IF f[p].kind = "Mod" THEN <<f[p].ident>> ELSE <<>>)

\* Every module that contains node i of file f carries the public marker.
Reached(f, i) == \A a \in Ancestors(f, i) : f[a].kind = "Mod" => f[a].vis = "Public"

RECURSIVE PathText(_)
\* The segments written with "::" between them.
PathText(segs) ==
    IF Len(segs) = 1 THEN segs[1]
    ELSE PathText(SubSeq(segs, 1, Len(segs) - 1)) \o "::" \o segs[Len(segs)]

\* The module path a declaration at node i of the visited file belongs to.
ModulePathOf(i) == PathText(<<crate_name>> \o EnclosingModules(Tree, i))

\* The member functions of trait t of file f, in lexical order.
MemberFunctions(f, t) == SelectSeq(Children(f, t), LAMBDA m : f[m].kind = "TraitMethod")

\* The nodes below the members of node t: the declarations in their bodies.
NestedIn(f, t) == { i \in 1..Len(f) : t \in Ancestors(f, i) /\ Parent(f, i) # t }

DeclarationKinds == {"Fn", "Struct", "Enum", "Trait"}
OtherKinds == {"Impl", "Const", "TraitMethod", "TraitOther", "ImplMethod"}

\* visit_file has visited every item of the file and is about to return.
CollectorDone == pc = "visit" /\ Len(stack) = 1 /\ ~HasNext

\* The visit of a node of one of the kinds `kinds` is about to return.
VisitedA(kinds) ==
    /\ pc = "visit" /\ Len(stack) > 0
    /\ Top.owner # 0 /\ Tree[Top.owner].kind \in kinds
    /\ ~HasNext

Report == output[1]

\* The records the spec asks of node i of file f, given the library name.
OwnRecords(f, i, lib) ==
    LET n == f[i]
        path == <<lib>> \o EnclosingModules(f, i)
        members == MemberFunctions(f, i)
    IN IF ~Reached(f, i) \/ n.vis # "Public" THEN <<>>
       ELSE CASE n.kind = "Fn" -> <<fn_metadata(n, path)>>
              [] n.kind = "Struct" -> <<type_metadata(n, path, "struct")>>
              [] n.kind = "Enum" -> <<type_metadata(n, path, "enum")>>
              [] n.kind = "Trait" ->
                    <<type_metadata(n, path, "trait")>>
                    \o [k \in 1..Len(members) |-> method_metadata(n, f[members[k]], path)]
              [] OTHER -> <<>>

RECURSIVE ExpectedRecords(_, _, _)
\* The records the spec asks of the first i nodes of file f.
ExpectedRecords(f, i, lib) ==
    IF i = 0 THEN <<>>
    ELSE ExpectedRecords(f, i - 1, lib) \o OwnRecords(f, i, lib)

RECURSIVE Flatten(_)
Flatten(lists) == IF lists = <<>> THEN <<>> ELSE Head(lists) \o Flatten(Tail(lists))

Failing(name) == fs[name].status \in {"unreadable", "invalid"}

\* ------------------------------------------------------------------- C1
\* C1: a declaration inside a module without the public marker never has a
\* record, whatever its own marker and the other enclosing modules' markers:
\* every record comes from a node all of whose enclosing modules are public.
C1_PrivateModuleHidden ==
    pc = "visit" =>
        \A k \in 1..Len(apis) :
            \A a \in Ancestors(Tree, origins[k]) :
                Tree[a].kind = "Mod" => Tree[a].vis = "Public"

\* A file is visited to its end that holds a public function in a private
\* module that is itself in a public module, and the function has no record.
C1_Witness ==
    /\ CollectorDone
    /\ \E i \in 1..Len(Tree) :
          /\ Tree[i].kind = "Fn" /\ Tree[i].vis = "Public"
          /\ \E a, b \in Ancestors(Tree, i) :
                /\ Tree[a].kind = "Mod" /\ Tree[a].vis = "Inherited"
                /\ Tree[b].kind = "Mod" /\ Tree[b].vis = "Public"
          /\ \A k \in 1..Len(origins) : origins[k] # i

\* ------------------------------------------------------------------- C2
\* C2 (as amended): when the visit of a trait with N member functions
\* returns, a public trait has added first its own record of type "class",
\* then N "method" records, one per member function in lexical order, named
\* trait::member and carrying the trait's module path; a non-public trait
\* has added none of these; every further record added during the visit
\* comes from a declaration nested in the body of a member.
C2_TraitRecords ==
    VisitedA({"Trait"}) =>
        LET t == Top.owner
            n0 == Top.entry_len
            members == MemberFunctions(Tree, t)
            own == IF Tree[t].vis = "Public" THEN Len(members) + 1 ELSE 0
            mp == ModulePathOf(t)
            qn == mp \o "::" \o Tree[t].ident
        IN /\ Len(apis) >= n0 + own
           /\ Tree[t].vis = "Public" =>
                /\ apis[n0 + 1].api_type = "class"
                /\ apis[n0 + 1].api = qn
                /\ apis[n0 + 1].module = mp
                /\ origins[n0 + 1] = t
                /\ \A k \in 1..Len(members) :
                      /\ apis[n0 + 1 + k].api_type = "method"
                      /\ apis[n0 + 1 + k].api = qn \o "::" \o Tree[members[k]].ident
                      /\ apis[n0 + 1 + k].module = mp
                      /\ origins[n0 + 1 + k] = members[k]
           /\ \A k \in (n0 + own + 1)..Len(apis) : origins[k] \in NestedIn(Tree, t)

\* The visit of a public trait with two member functions returns, having
\* added three records.
C2_Witness ==
    /\ VisitedA({"Trait"})
    /\ Tree[Top.owner].vis = "Public"
    /\ Len(MemberFunctions(Tree, Top.owner)) = 2
    /\ Len(apis) = Top.entry_len + 3

\* C2 as stated: the visit of a public trait with N member functions adds
\* exactly N+1 records, the visit of a non-public trait adds no type record
\* and no method record.
C2_ExactlyNPlusOne ==
    VisitedA({"Trait"}) =>
        IF Tree[Top.owner].vis = "Public"
        THEN Len(apis) = Top.entry_len + Len(MemberFunctions(Tree, Top.owner)) + 1
        ELSE \A k \in (Top.entry_len + 1)..Len(apis) :
                 apis[k].api_type \notin {"class", "method"}

\* ------------------------------------------------------------------- C3
\* C3: in every record, module is the "::"-join of the library name and the
\* names of the modules enclosing the declaration, outermost first; api is
\* not empty and is module::name for a function or type record and
\* module::trait::name for a method record.
C3_QualifiedNames ==
    pc = "visit" =>
        \A k \in 1..Len(apis) :
            LET i == origins[k]
            IN /\ apis[k].module = ModulePathOf(i)
               /\ apis[k].api # ""
               /\ apis[k].api =
                    IF Tree[i].kind = "TraitMethod"
                    THEN ModulePathOf(i) \o "::" \o Tree[Parent(Tree, i)].ident
                                         \o "::" \o Tree[i].ident
                    ELSE ModulePathOf(i) \o "::" \o Tree[i].ident

\* The public function area of the public module shapes of library lib is
\* recorded as lib::shapes::area with module lib::shapes.
C3_Witness ==
    /\ pc = "visit"
    /\ \E k \in 1..Len(apis) :
          /\ apis[k].api = "lib::shapes::area"
          /\ apis[k].module = "lib::shapes"
          /\ apis[k].api_type = "function"

\* ------------------------------------------------------------------- C4
RECURSIVE SumOver(_, _)
\* The sum of the values of map over the keys.
SumOver(map, keys) ==
    IF keys = {} THEN 0
    ELSE LET key == CHOOSE e \in keys : TRUE
         IN map[key] + SumOver(map, keys \ {key})

\* C4: in the report of any run, total_apis is the length of apis, the
\* by_type counts sum to total_apis, the by_type keys are exactly the kinds
\* that occur in apis, each with its number of records, and deprecated_count
\* is the number of records with is_deprecated.
C4_ReportCounts ==
    pc = "done" =>
        LET list == Report.apis
            kinds == { list[k].api_type : k \in 1..Len(list) }
        IN /\ Report.total_apis = Len(list)
           /\ SumOver(Report.by_type, DOMAIN Report.by_type) = Report.total_apis
           /\ DOMAIN Report.by_type = kinds
           /\ \A key \in kinds :
                 /\ Report.by_type[key] > 0
                 /\ Report.by_type[key] =
                        Cardinality({ k \in 1..Len(list) : list[k].api_type = key })
           /\ Report.deprecated_count =
                  Cardinality({ k \in 1..Len(list) : list[k].is_deprecated })

\* The report of a run in which a file failed to parse and another gave
\* records of two kinds, at least one of them deprecated and one not.
C4_Witness ==
    /\ pc = "done"
    /\ stderr # <<>>
    /\ Cardinality(DOMAIN Report.by_type) >= 2
    /\ Report.deprecated_count >= 1
    /\ Report.deprecated_count < Report.total_apis

\* ------------------------------------------------------------------- C5
RECURSIVE ExpectedApis(_)
\* The records of a run over the files `names`, none of which fails.
ExpectedApis(names) ==
    IF names = <<>> THEN <<>>
    ELSE LET f == fs[Head(names)]
         IN (IF f.status = "ok"
             THEN ExpectedRecords(f.items, Len(f.items), crate_name)
             ELSE <<>>)
            \o ExpectedApis(Tail(names))

\* C5: a file that cannot be read or parsed does not abort the run: it
\* contributes no record, every file after it is still processed, and the
\* report holds the records of the run without the failing files.
C5_FailureSkipsFile ==
    pc = "done" =>
        /\ Len(results) = Len(files_to_process)
        /\ \A i \in 1..Len(results) :
              /\ results[i].file = files_to_process[i]
              /\ Failing(files_to_process[i]) =>
                    results[i].outcome = "err" /\ results[i].apis = <<>>
              /\ fs[files_to_process[i]].status = "ok" => results[i].outcome = "ok"
        /\ Len(stderr) = Len(SelectSeq(files_to_process, Failing))
        /\ Report.apis =
              ExpectedApis(SelectSeq(files_to_process, LAMBDA name : ~Failing(name)))

\* A run is over whose first file failed and whose second file gave records.
C5_Witness ==
    /\ pc = "done"
    /\ Len(files_to_process) = 2
    /\ Failing(files_to_process[1])
    /\ results[2].outcome = "ok"
    /\ results[2].apis # <<>>
    /\ Report.apis = results[2].apis

\* ------------------------------------------------------------------- C6
\* The lists that introspect_file returned, in the order of the calls.
ReturnedLists == [i \in 1..Len(results) |-> results[i].apis]

\* C6: the report's apis is the concatenation, in input order, of the list
\* of each file that parsed, each in its traversal order; nothing is
\* re-ordered, filtered or deduplicated.
C6_Concatenation ==
    pc = "done" =>
        /\ Len(results) = Len(files_to_process)
        /\ Report.apis = Flatten(ReturnedLists)
        /\ \A i \in 1..Len(results) :
              /\ results[i].file = files_to_process[i]
              /\ results[i].apis =
                    IF fs[results[i].file].status = "ok"
                    THEN ExpectedRecords(fs[results[i].file].items,
                                         Len(fs[results[i].file].items), crate_name)
                    ELSE <<>>

\* Two input files each declare the public function lib::shapes::area and
\* the report holds two records of that name.
C6_Witness ==
    /\ pc = "done"
    /\ Len(files_to_process) = 2
    /\ Report.total_apis = 2
    /\ Report.apis[1].api = "lib::shapes::area"
    /\ Report.apis[2].api = "lib::shapes::area"

\* ------------------------------------------------------------------- C7
\* C7: every function, struct, enum or trait declaration the traversal
\* reaches has one record of its own if it carries the public marker and
\* none otherwise; no node is recorded twice; every record has in_all.
C7_OneRecordPerPublicDeclaration ==
    pc = "visit" =>
        /\ \A j, k \in 1..Len(origins) : j # k => origins[j] # origins[k]
        /\ \A k \in 1..Len(apis) :
              /\ apis[k].in_all = TRUE
              /\ Tree[origins[k]].kind \in DeclarationKinds =>
                    Tree[origins[k]].vis = "Public"
        /\ CollectorDone =>
              \A i \in 1..Len(Tree) :
                  (Tree[i].kind \in DeclarationKinds /\ Reached(Tree, i)) =>
                      Cardinality({ k \in 1..Len(origins) : origins[k] = i })
                          = (IF Tree[i].vis = "Public" THEN 1 ELSE 0)

\* A file is visited to its end in which a crate-visible function holds a
\* public declaration: the first has no record, the second has one.
C7_Witness ==
    /\ CollectorDone
    /\ \E i, j \in 1..Len(Tree) :
          /\ Tree[i].kind = "Fn" /\ Tree[i].vis = "Restricted"
          /\ Parent(Tree, j) = i
          /\ Tree[j].kind \in DeclarationKinds /\ Tree[j].vis = "Public"
          /\ \A k \in 1..Len(origins) : origins[k] # i
          /\ \E k \in 1..Len(origins) : origins[k] = j

\* ------------------------------------------------------------------- C8
\* The nodes below node t.
Descendants(f, t) == { i \in 1..Len(f) : t \in Ancestors(f, i) }

\* C8 (as amended): the visit of a node of any other kind adds no record
\* for the node itself or for its members, so the public methods of an
\* inherent impl block are not recorded; the records it adds are those of
\* the function, struct, enum and trait declarations in the bodies under
\* the node, which syn's default traversal reaches.
C8_OtherNodes ==
    pc = "visit" =>
        /\ \A k \in 1..Len(apis) :
              Tree[origins[k]].kind \notin (OtherKinds \ {"TraitMethod"})
        /\ VisitedA(OtherKinds) =>
              /\ \A k \in (Top.entry_len + 1)..Len(apis) :
                    /\ origins[k] \in Descendants(Tree, Top.owner)
                    /\ Tree[origins[k]].kind \in DeclarationKinds \cup {"TraitMethod"}
                    /\ Tree[Top.owner].kind = "Impl" =>
                          origins[k] \in NestedIn(Tree, Top.owner)
              /\ (\A i \in Descendants(Tree, Top.owner) :
                      Tree[i].kind \notin DeclarationKinds)
                    => Len(apis) = Top.entry_len

\* The visit of an impl block with a public method returns; the method has
\* no record, a public declaration in its body has one.
C8_Witness ==
    /\ VisitedA({"Impl"})
    /\ \E m \in 1..Len(Tree) :
          /\ Parent(Tree, m) = Top.owner
          /\ Tree[m].kind = "ImplMethod" /\ Tree[m].vis = "Public"
          /\ \A k \in 1..Len(origins) : origins[k] # m
    /\ Len(apis) = Top.entry_len + 1
    /\ origins[Len(apis)] \in NestedIn(Tree, Top.owner)

\* C8 as stated: the record list is the same after the visit of a node of
\* any other kind as before it.
C8_NoRecordAdded ==
    VisitedA(OtherKinds) => Len(apis) = Top.entry_len

\* ------------------------------------------------------------------- C9
\* "name: type" from the parameter's own pattern and own type.
ExpectedArg(arg) ==
    IF arg.receiver THEN "self"
    ELSE to_string(arg.pat) \o ": " \o to_string(arg.ty)

RECURSIVE CommaList(_)
CommaList(texts) ==
    IF texts = <<>> THEN ""
    ELSE IF Len(texts) = 1 THEN texts[1]
    ELSE texts[1] \o ", " \o CommaList(Tail(texts))

ExpectedSignature(n) ==
    "(" \o CommaList([i \in 1..Len(n.inputs) |-> ExpectedArg(n.inputs[i])]) \o ")"
        \o (IF n.output = <<>> THEN "" ELSE " -> " \o to_string(n.output))

\* C9: the signature of a function or trait method record is "(" + the
\* parameters joined by ", " + ")", the receiver as "self" and any other
\* parameter as "name: type", then " -> " + return type when one is
\* declared; struct, enum and trait records carry "struct Name", "enum
\* Name", "trait Name".
C9_SignatureText ==
    pc = "visit" =>
        \A k \in 1..Len(apis) :
            LET n == Tree[origins[k]]
            IN apis[k].signature =
                 CASE n.kind \in {"Fn", "TraitMethod"} -> ExpectedSignature(n)
                   [] n.kind = "Struct" -> "struct " \o n.ident
                   [] n.kind = "Enum" -> "enum " \o n.ident
                   [] n.kind = "Trait" -> "trait " \o n.ident
                   [] OTHER -> apis[k].signature

\* ------------------------------------------------------------------ C10
\* The names of the modules around the items of node o: the modules that
\* contain o and o itself when it is a module.
ModulesAround(f, o) ==
    IF o = 0 THEN <<>>
    ELSE EnclosingModules(f, o) \o (IF f[o].kind = "Mod" THEN <<f[o].ident>> ELSE <<>>)

\* The public module that is an earlier sibling of node i, if any.
FollowsModule(f, i) ==
    \E m \in 1..(i - 1) :
        /\ Parent(f, m) = Parent(f, i)
        /\ f[m].kind = "Mod" /\ f[m].vis = "Public"

\* C10: the visit of a module leaves module_path as it found it: at every
\* point of a traversal module_path is what it was when the visit of the
\* node being traversed began, plus that node's name if it is a module. So
\* it is never empty, its first element is the library name, its length is
\* 1 + the number of enclosing public modules, a declaration after a
\* nested module is recorded under the outer module's path, and it is
\* [library] when the traversal of a file begins and when it ends.
C10_ModulePathStack ==
    pc = "visit" =>
        /\ module_path # <<>>
        /\ module_path[1] = crate_name
        /\ module_path =
              Top.entry_path
              \o (IF Top.owner # 0 /\ Tree[Top.owner].kind = "Mod"
                  THEN <<Tree[Top.owner].ident>> ELSE <<>>)
        /\ module_path = <<crate_name>> \o ModulesAround(Tree, Top.owner)
        /\ Top.owner # 0 => Reached(Tree, Top.owner)
        /\ Len(stack) = 1 => module_path = <<crate_name>>
        /\ \A k \in 1..Len(apis) :
              FollowsModule(Tree, origins[k]) =>
                  apis[k].module = ModulePathOf(origins[k])

\* In a public module a public function follows a nested public module
\* with content and is recorded under the outer module's path; the
\* traversal is at its end.
C10_Witness ==
    /\ CollectorDone
    /\ module_path = <<crate_name>>
    /\ \E k \in 1..Len(apis) :
          LET i == origins[k]
          IN /\ Tree[i].kind = "Fn"
             /\ Parent(Tree, i) # 0
             /\ Tree[Parent(Tree, i)].kind = "Mod"
             /\ \E m \in 1..(i - 1) :
                   /\ Parent(Tree, m) = Parent(Tree, i)
                   /\ Tree[m].kind = "Mod" /\ Tree[m].vis = "Public" /\ Tree[m].has_content
             /\ apis[k].module = crate_name \o "::" \o Tree[Parent(Tree, i)].ident
====
